---- MODULE Spec2Model ----
(***************************************************************************)
(* A model of src/event_source.rs: the EventSource stream, which wraps a   *)
(* RequestBuilder, issues the request, validates the response, forwards    *)
(* the decoded events and, on failure, either arms a retry timer or closes *)
(* for good.                                                               *)
(*                                                                         *)
(* The driver's fields are the program variables.  The collaborators (the  *)
(* HTTP transport, the event decoder, the timer's clock, the retry policy) *)
(* are inputs: what a polled future or stream returns is chosen by the     *)
(* environment among the outcomes `transport' and `decoder' allow.         *)
(***************************************************************************)
EXTENDS Integers, Sequences, FiniteSets, TLC

\* ------------------------------------------------------------------------
\* Bounds of the model
\* ------------------------------------------------------------------------

\* Length of the recorded prefix of the produced sequence.
MaxItems == 4

\* Largest delay a retry policy of the model returns.
MaxDelay == 2

\* ------------------------------------------------------------------------
\* Rust's Option, Result and Poll
\* ------------------------------------------------------------------------

None == [tag |-> "None"]

Some(x) == [tag |-> "Some", val |-> x]

Ok(x) == [tag |-> "Ok", val |-> x]

Err(e) == [tag |-> "Err", val |-> e]

Pending == [tag |-> "Pending"]

Ready(x) == [tag |-> "Ready", val |-> x]

\* What a slot's waitable reports in a poll that never reaches it.
NotPolled == [tag |-> "NotPolled"]

\* ------------------------------------------------------------------------
\* Types of the crate
\* ------------------------------------------------------------------------

Connecting == "Connecting"

Open == "Open"

Closed == "Closed"

ReadyState == {Connecting, Open, Closed}

EventOpen == [tag |-> "Open"]

\* impl From<MessageEvent> for Event
EventMessage(event) == [tag |-> "Message", val |-> event]

Transport(err) == [tag |-> "Transport", val |-> err]

InvalidStatusCode(code) == [tag |-> "InvalidStatusCode", val |-> code]

InvalidContentType(value) == [tag |-> "InvalidContentType", val |-> value]

StreamEnded == [tag |-> "StreamEnded"]

\* Error::from(EventStreamError): the decoder's error, wrapped.
Decode(err) == [tag |-> "Decode", val |-> err]

\* ------------------------------------------------------------------------
\* The inputs
\* ------------------------------------------------------------------------

StatusOK == 200

Statuses == {StatusOK, 201}

\* A header value is its text, cut in tokens; "\\xFF" is a byte that is not
\* visible ASCII.
HeaderValues ==
    { <<"text", "/", "event-stream">>,
      <<"text", "/", "event-stream", ";", "charset=utf-8">>,
      <<"application", "/", "json">>,
      <<"text">>,
      <<"\\xFF">> }

\* Every content type under the status OK; under another status, whose test
\* comes first, no content type and the right one.
Responses ==
    [status : {StatusOK}, content_type : {None} \cup {Some(h) : h \in HeaderValues}]
        \cup [status : Statuses \ {StatusOK},
              content_type : {None, Some(<<"text", "/", "event-stream">>)}]

ReqwestErrors == {"connect", "timeout"}

MessageEvents == {"m1", "m2"}

EventStreamErrors == {"Parser"}

\* A RequestBuilder: the request it describes and whether its body can be
\* duplicated (a streaming body cannot).
Builders == [url : {"u"}, cloneable : BOOLEAN]

\* RequestBuilder::try_clone
try_clone(b) == IF b.cloneable THEN Some(b) ELSE None

\* RequestBuilder::send: the future of the response to this request.
send(b) == [request |-> b]

\* Response::bytes_stream().eventsource(): the event stream of a response.
eventsource(res) == [response |-> res]

Policies == {"never", "always", "backoff", "transport_only"}

\* RetryPolicy::retry(error, last_retry): a deterministic function of its
\* arguments; four policies stand for the ones a caller can plug in.
Retry(policy, error, last) ==
    CASE policy = "never" -> None
      [] policy = "always" -> Some(1)
      [] policy = "backoff" ->
            IF last = None THEN Some(1)
            ELSE IF last.val[2] < MaxDelay THEN Some(last.val[2] + 1)
            ELSE None
      [] policy = "transport_only" ->
            IF error.tag = "Transport" THEN Some(MaxDelay) ELSE None

\* Delay::new(duration): a timer with `left' ticks to go.
DelayNew(duration) == [duration |-> duration, left |-> duration]

\* What the outstanding fetch may return when polled and ready.
FetchReady ==
    {Ready(Ok(res)) : res \in Responses} \cup {Ready(Err(e)) : e \in ReqwestErrors}

\* What the open stream may return when polled and ready.
StreamReady ==
    {Ready(Some(Ok(ev))) : ev \in MessageEvents}
        \cup {Ready(Some(Err(e))) : e \in EventStreamErrors}
        \cup {Ready(None)}

\* ------------------------------------------------------------------------
\* State
\* ------------------------------------------------------------------------

VARIABLES
    builder,        \* EventSource.builder
    next_response,  \* EventSource.next_response
    cur_stream,     \* EventSource.cur_stream
    delay,          \* EventSource.delay
    is_closed,      \* EventSource.is_closed
    retry_policy,   \* EventSource.retry_policy
    last_retry,     \* EventSource.last_retry
    transport,      \* environment: what the fetches to come may return
    decoder,        \* environment: what an open stream may return
    last,           \* history: the last call on the driver and its outcome
    items,          \* history: the first MaxItems items produced
    states,         \* history: ready_state at creation and after each item
    close_called    \* history: close() has been called

fields == <<builder, next_response, cur_stream, delay, is_closed, retry_policy, last_retry>>

vars == <<builder, next_response, cur_stream, delay, is_closed, retry_policy, last_retry,
          transport, decoder, last, items, states, close_called>>

\* The driver as one value.
this ==
    [builder |-> builder, next_response |-> next_response, cur_stream |-> cur_stream,
     delay |-> delay, is_closed |-> is_closed, retry_policy |-> retry_policy,
     last_retry |-> last_retry]

\* ------------------------------------------------------------------------
\* EventSource: new, close, ready_state
\* ------------------------------------------------------------------------

\* new() leaving the first request unsent.
new_unsent(b, policy) ==
    IF try_clone(b) = None THEN Err("CannotCloneRequestError")
    ELSE Ok([builder |-> b,
             next_response |-> None,
             cur_stream |-> None,
             delay |-> None,
             is_closed |-> FALSE,
             retry_policy |-> policy,
             last_retry |-> None])

\* EventSource::new: Err(CannotCloneRequestError) when the builder cannot be
\* duplicated, else the driver with the first fetch already sent and the
\* default policy, which `policy' stands for.
new(b, policy) ==
    IF try_clone(b) = None THEN Err("CannotCloneRequestError")
    ELSE Ok([builder |-> b,
             next_response |-> Some(send(try_clone(b).val)),
             cur_stream |-> None,
             delay |-> None,
             is_closed |-> FALSE,
             retry_policy |-> policy,
             last_retry |-> None])

\* EventSource::close
close(s) == [s EXCEPT !.is_closed = TRUE]

\* ready_state without its test of the timer.
ready_state_no_delay(s) ==
    IF s.is_closed THEN Closed
    ELSE IF s.next_response # None THEN Connecting
    ELSE Open

\* EventSource::ready_state
ready_state(s) ==
    IF s.is_closed THEN Closed
    ELSE IF s.delay # None \/ s.next_response # None THEN Connecting
    ELSE Open

\* ------------------------------------------------------------------------
\* EventSourceProjection: clear_fetch, retry_fetch, handle_error
\* ------------------------------------------------------------------------

\* clear_fetch releasing the fetch only.
clear_fetch_keeps_stream(s) == [s EXCEPT !.next_response = None]

\* clear_fetch releasing the stream only.
clear_fetch_keeps_fetch(s) == [s EXCEPT !.cur_stream = None]

clear_fetch(s) == [s EXCEPT !.next_response = None, !.cur_stream = None]

\* retry_fetch releasing the stream without sending the request.
retry_fetch_unsent(s) == [s EXCEPT !.cur_stream = None]

\* try_clone().unwrap() cannot fail: new() refused a builder that cannot be
\* duplicated and nothing assigns the builder afterwards.
retry_fetch(s) ==
    [s EXCEPT !.cur_stream = None,
              !.next_response = Some(send(try_clone(s.builder).val))]

\* handle_error leaving the driver open when the policy declines.
handle_error_noclose(s, error) ==
    LET c == clear_fetch(s)
        answer == Retry(c.retry_policy, error, c.last_retry)
        retry_num == IF c.last_retry # None THEN c.last_retry.val[1] ELSE 1
    IN  [this |-> IF answer # None
                    THEN [c EXCEPT !.last_retry = Some(<<retry_num, answer.val>>),
                                   !.delay = Some(DelayNew(answer.val))]
                    ELSE c,
         consulted |-> Some([error |-> error, last_retry |-> c.last_retry])]

\* handle_error giving up at the second failure in a row.
handle_error_capped(s, error) ==
    LET c == clear_fetch(s)
        answer == Retry(c.retry_policy, error, c.last_retry)
        retry_num == IF c.last_retry # None THEN c.last_retry.val[1] ELSE 1
    IN  [this |-> IF answer # None /\ c.last_retry = None
                    THEN [c EXCEPT !.last_retry = Some(<<retry_num, answer.val>>),
                                   !.delay = Some(DelayNew(answer.val))]
                    ELSE [c EXCEPT !.is_closed = TRUE],
         consulted |-> Some([error |-> error, last_retry |-> c.last_retry])]

\* handle_error counting the failures.
handle_error_counting(s, error) ==
    LET c == clear_fetch(s)
        answer == Retry(c.retry_policy, error, c.last_retry)
        retry_num == IF c.last_retry # None THEN c.last_retry.val[1] + 1 ELSE 1
    IN  [this |-> IF answer # None
                    THEN [c EXCEPT !.last_retry = Some(<<retry_num, answer.val>>),
                                   !.delay = Some(DelayNew(answer.val))]
                    ELSE [c EXCEPT !.is_closed = TRUE],
         consulted |-> Some([error |-> error, last_retry |-> c.last_retry])]

\* handle_error recording the first delay only.
handle_error_stale(s, error) ==
    LET c == clear_fetch(s)
        answer == Retry(c.retry_policy, error, c.last_retry)
        retry_num == IF c.last_retry # None THEN c.last_retry.val[1] ELSE 1
    IN  [this |-> IF answer # None
                    THEN [c EXCEPT !.last_retry =
                                       IF c.last_retry # None THEN c.last_retry
                                       ELSE Some(<<retry_num, answer.val>>),
                                   !.delay = Some(DelayNew(answer.val))]
                    ELSE [c EXCEPT !.is_closed = TRUE],
         consulted |-> Some([error |-> error, last_retry |-> c.last_retry])]

\* The driver after the failure, and `consulted': the arguments the retry
\* policy was called with.
handle_error(s, error) ==
    LET c == clear_fetch(s)
        answer == Retry(c.retry_policy, error, c.last_retry)
        retry_num == IF c.last_retry # None THEN c.last_retry.val[1] ELSE 1
    IN  [this |-> IF answer # None
                    THEN [c EXCEPT !.last_retry = Some(<<retry_num, answer.val>>),
                                   !.delay = Some(DelayNew(answer.val))]
                    ELSE [c EXCEPT !.is_closed = TRUE],
         consulted |-> Some([error |-> error, last_retry |-> c.last_retry])]

\* ------------------------------------------------------------------------
\* check_response
\* ------------------------------------------------------------------------

\* HeaderValue::to_str: fails on a byte that is not visible ASCII.
to_str(value) ==
    IF \E i \in 1..Len(value) : value[i] = "\\xFF" THEN Err("ToStrError") ELSE Ok(value)

MimeNames == {"text", "event-stream", "application", "json"}

\* str::parse::<Mime>: type "/" subtype, then any number of ";" parameter.
parse(str) ==
    IF /\ Len(str) >= 3
       /\ str[1] \in MimeNames
       /\ str[2] = "/"
       /\ str[3] \in MimeNames
       /\ Len(str) % 2 = 1
       /\ \A i \in 4..Len(str) : (i % 2 = 0) => str[i] = ";"
       /\ \A i \in 4..Len(str) : (i % 2 = 1) => str[i] \notin (MimeNames \cup {"/", ";", "\\xFF"})
    THEN Ok([type |-> str[1], subtype |-> str[3]])
    ELSE Err("FromStrError")

check_response(response) ==
    IF response.status # StatusOK THEN Err(InvalidStatusCode(response.status))
    ELSE IF response.content_type = None THEN Err(InvalidContentType(<<>>))
    ELSE LET content_type == response.content_type.val IN
         IF to_str(content_type).tag = "Err" THEN Err(InvalidContentType(content_type))
         ELSE LET mime_type == parse(to_str(content_type).val) IN
              IF mime_type.tag = "Err" THEN Err(InvalidContentType(content_type))
              ELSE IF ~(mime_type.val.type = "text" /\ mime_type.val.subtype = "event-stream")
                   THEN Err(InvalidContentType(content_type))
              ELSE Ok(<<>>)

\* ------------------------------------------------------------------------
\* Stream::poll_next
\* ------------------------------------------------------------------------

\* .unwrap() of an empty cur_stream.
Panic == [tag |-> "Panic"]

\* Future::poll of the timer.
delay_poll(d) == IF d.left = 0 THEN Ready(<<>>) ELSE Pending

\* on_response handing a rejected response to handle_error.
on_response_retry(s, res) ==
    LET c == clear_fetch(s)
        checked == check_response(res)
        h == handle_error(s, checked.val)
    IN  IF checked.tag = "Err"
        THEN [this |-> h.this, ret |-> Ready(Some(Err(checked.val))),
              consulted |-> h.consulted]
        ELSE [this |-> [c EXCEPT !.last_retry = None,
                                 !.cur_stream = Some(eventsource(res))],
              ret |-> Ready(Some(Ok(EventOpen))),
              consulted |-> None]

\* on_response returning the validation error without closing.
on_response_noclose(s, res) ==
    LET c == clear_fetch(s)
        checked == check_response(res)
    IN  IF checked.tag = "Err"
        THEN [this |-> c, ret |-> Ready(Some(Err(checked.val))), consulted |-> None]
        ELSE [this |-> [c EXCEPT !.last_retry = None,
                                 !.cur_stream = Some(eventsource(res))],
              ret |-> Ready(Some(Ok(EventOpen))),
              consulted |-> None]

\* on_response polling on instead of yielding Open.
on_response_pending(s, res) ==
    LET c == clear_fetch(s)
        checked == check_response(res)
    IN  IF checked.tag = "Err"
        THEN [this |-> [c EXCEPT !.is_closed = TRUE],
              ret |-> Ready(Some(Err(checked.val))),
              consulted |-> None]
        ELSE [this |-> [c EXCEPT !.last_retry = None,
                                 !.cur_stream = Some(eventsource(res))],
              ret |-> Pending,
              consulted |-> None]

\* on_response keeping the retry bookkeeping of the failures before.
on_response_keeps_retry(s, res) ==
    LET c == clear_fetch(s)
        checked == check_response(res)
    IN  IF checked.tag = "Err"
        THEN [this |-> [c EXCEPT !.is_closed = TRUE],
              ret |-> Ready(Some(Err(checked.val))),
              consulted |-> None]
        ELSE [this |-> [c EXCEPT !.cur_stream = Some(eventsource(res))],
              ret |-> Ready(Some(Ok(EventOpen))),
              consulted |-> None]

\* Poll::Ready(Ok(res)) of the fetch.
on_response(s, res) ==
    LET c == clear_fetch(s)
        checked == check_response(res)
    IN  IF checked.tag = "Err"
        THEN [this |-> [c EXCEPT !.is_closed = TRUE],
              ret |-> Ready(Some(Err(checked.val))),
              consulted |-> None]
        ELSE [this |-> [c EXCEPT !.last_retry = None,
                                 !.cur_stream = Some(eventsource(res))],
              ret |-> Ready(Some(Ok(EventOpen))),
              consulted |-> None]

\* on_transport_error handling the error without yielding it.
on_transport_error_swallow(s, e) ==
    LET err == Transport(e)
        h == handle_error(s, err)
    IN  [this |-> h.this, ret |-> Pending, consulted |-> h.consulted]

\* Poll::Ready(Err(err)) of the fetch.
on_transport_error(s, e) ==
    LET err == Transport(e)
        h == handle_error(s, err)
    IN  [this |-> h.this, ret |-> Ready(Some(Err(err))), consulted |-> h.consulted]

\* The fetch slot is populated: poll the fetch, whose outcome is f.
poll_response(s, f) ==
    IF f = Pending THEN [this |-> s, ret |-> Pending, consulted |-> None]
    ELSE IF f.val.tag = "Ok" THEN on_response(s, f.val.val)
    ELSE on_transport_error(s, f.val.val)

\* poll_stream reporting the end of the stream as the end of the sequence.
poll_stream_eof(s, st) ==
    IF s.cur_stream = None THEN [this |-> s, ret |-> Panic, consulted |-> None]
    ELSE IF st = Pending THEN [this |-> s, ret |-> Pending, consulted |-> None]
    ELSE IF st.val = None
         THEN [this |-> [clear_fetch(s) EXCEPT !.is_closed = TRUE], ret |-> Ready(None),
               consulted |-> None]
    ELSE IF st.val.val.tag = "Err"
         THEN LET err == Decode(st.val.val.val)
                  h == handle_error(s, err)
              IN  [this |-> h.this, ret |-> Ready(Some(Err(err))), consulted |-> h.consulted]
    ELSE [this |-> s, ret |-> Ready(Some(Ok(EventMessage(st.val.val.val)))),
          consulted |-> None]

\* Neither timer nor fetch: poll the stream, whose outcome is st.
poll_stream(s, st) ==
    IF s.cur_stream = None THEN [this |-> s, ret |-> Panic, consulted |-> None]
    ELSE IF st = Pending THEN [this |-> s, ret |-> Pending, consulted |-> None]
    ELSE IF st.val = None
         THEN LET h == handle_error(s, StreamEnded)
              IN  [this |-> h.this, ret |-> Ready(Some(Err(StreamEnded))),
                   consulted |-> h.consulted]
    ELSE IF st.val.val.tag = "Err"
         THEN LET err == Decode(st.val.val.val)
                  h == handle_error(s, err)
              IN  [this |-> h.this, ret |-> Ready(Some(Err(err))), consulted |-> h.consulted]
    ELSE [this |-> s, ret |-> Ready(Some(Ok(EventMessage(st.val.val.val)))),
          consulted |-> None]

\* poll_delay sending the request anew whether the timer has elapsed or not.
poll_delay_eager(s, t) == retry_fetch([s EXCEPT !.delay = None])

\* The timer slot: the driver once the timer, whose poll returned t, is dealt
\* with.
poll_delay(s, t) ==
    IF t.tag = "Ready" THEN retry_fetch([s EXCEPT !.delay = None]) ELSE s

\* poll_slots returning not-ready once the timer has elapsed, the new
\* request left for the next call to poll.
poll_slots_roundtrip(s, f, st) ==
    LET t == IF s.delay # None THEN delay_poll(s.delay.val) ELSE NotPolled
        s1 == poll_delay(s, t)
        armed == IF s1.next_response # s.next_response THEN s1.next_response ELSE None
    IN  IF t # NotPolled
        THEN [this |-> s1, ret |-> Pending, consulted |-> None,
              timer |-> t, fetch |-> NotPolled, stream |-> NotPolled, armed |-> armed]
        ELSE IF s1.next_response # None
        THEN poll_response(s1, f)
               @@ [timer |-> t, fetch |-> f, stream |-> NotPolled, armed |-> armed]
        ELSE poll_stream(s1, st)
               @@ [timer |-> t, fetch |-> NotPolled,
                   stream |-> IF s1.cur_stream = None THEN NotPolled ELSE st,
                   armed |-> armed]

\* poll_next on a driver that is not closed; f and st are what the fetch and
\* the stream return if this call polls them.  The result is the driver
\* after the call, the value returned, what each waitable returned to this
\* call (NotPolled if the call did not poll it), the retry policy's
\* arguments if it was consulted, and the request future this call created,
\* if any.
poll_slots(s, f, st) ==
    LET t == IF s.delay # None THEN delay_poll(s.delay.val) ELSE NotPolled
        s1 == poll_delay(s, t)
        armed == IF s1.next_response # s.next_response THEN s1.next_response ELSE None
    IN  IF t = Pending
        THEN [this |-> s1, ret |-> Pending, consulted |-> None,
              timer |-> t, fetch |-> NotPolled, stream |-> NotPolled, armed |-> armed]
        ELSE IF s1.next_response # None
        THEN poll_response(s1, f)
               @@ [timer |-> t, fetch |-> f, stream |-> NotPolled, armed |-> armed]
        ELSE poll_stream(s1, st)
               @@ [timer |-> t, fetch |-> NotPolled,
                   stream |-> IF s1.cur_stream = None THEN NotPolled ELSE st,
                   armed |-> armed]

\* poll_next without its test of is_closed.
poll_next_unchecked(s, f, st) == poll_slots(s, f, st)

\* poll_next releasing the fetch and the stream of a closed driver.
poll_next_releases(s, f, st) ==
    IF s.is_closed
    THEN [this |-> clear_fetch(s), ret |-> Ready(None), consulted |-> None,
          timer |-> NotPolled, fetch |-> NotPolled, stream |-> NotPolled, armed |-> None]
    ELSE poll_slots(s, f, st)

\* One call of poll_next on driver s.
poll_next(s, f, st) ==
    IF s.is_closed
    THEN [this |-> s, ret |-> Ready(None), consulted |-> None,
          timer |-> NotPolled, fetch |-> NotPolled, stream |-> NotPolled, armed |-> None]
    ELSE poll_slots(s, f, st)

\* ------------------------------------------------------------------------
\* The specification
\* ------------------------------------------------------------------------

Install(s) ==
    /\ builder' = s.builder
    /\ next_response' = s.next_response
    /\ cur_stream' = s.cur_stream
    /\ delay' = s.delay
    /\ is_closed' = s.is_closed
    /\ retry_policy' = s.retry_policy
    /\ last_retry' = s.last_retry

\* The state new() returns the driver in.
Created(b, policy) ==
    /\ new(b, policy).tag = "Ok"
    /\ builder = new(b, policy).val.builder
    /\ next_response = new(b, policy).val.next_response
    /\ cur_stream = new(b, policy).val.cur_stream
    /\ delay = new(b, policy).val.delay
    /\ is_closed = new(b, policy).val.is_closed
    /\ retry_policy = new(b, policy).val.retry_policy
    /\ last_retry = new(b, policy).val.last_retry
    /\ last = [op |-> "new"]
    /\ items = <<>>
    /\ states = <<ready_state(new(b, policy).val)>>
    /\ close_called = FALSE

\* Any builder new() accepts, any policy, a transport and a decoder that may
\* return anything.
Init ==
    /\ \E b \in Builders, policy \in Policies : Created(b, policy)
    /\ transport = <<FetchReady>>
    /\ decoder = StreamReady

\* The caller polls the stream once.
PollWith(f, st) ==
    LET r == poll_next(this, f, st)
        produced == r.ret.tag = "Ready" /\ r.ret.val # None /\ Len(items) < MaxItems
    IN  /\ Install(r.this)
        /\ transport' = IF r.fetch.tag = "Ready" /\ Len(transport) > 1
                          THEN Tail(transport) ELSE transport
        /\ last' = [op |-> "poll_next", ret |-> r.ret, consulted |-> r.consulted,
                    timer |-> r.timer, fetch |-> r.fetch, stream |-> r.stream,
                    armed |-> r.armed]
        /\ items' = IF produced THEN Append(items, r.ret.val.val) ELSE items
        /\ states' = IF produced THEN Append(states, ready_state(r.this)) ELSE states
        /\ UNCHANGED <<decoder, close_called>>

\* No call polls both the fetch and the stream, so one of the two inputs is
\* Pending in each case.
Poll ==
    \/ \E f \in {Pending} \cup Head(transport) : PollWith(f, Pending)
    \/ \E st \in decoder : PollWith(Pending, st)

\* The caller calls close().
Close ==
    /\ Install(close(this))
    /\ last' = [op |-> "close"]
    /\ close_called' = TRUE
    /\ UNCHANGED <<transport, decoder, items, states>>

\* The caller reads ready_state().
ReadReadyState ==
    /\ last' = [op |-> "ready_state", ret |-> ready_state(this)]
    /\ UNCHANGED <<fields, transport, decoder, items, states, close_called>>

\* Time passes on the armed timer.
Tick ==
    /\ delay # None
    /\ delay.val.left > 0
    /\ delay' = Some([delay.val EXCEPT !.left = @ - 1])
    /\ UNCHANGED <<builder, next_response, cur_stream, is_closed, retry_policy, last_retry,
                   transport, decoder, last, items, states, close_called>>

Next == Poll \/ Close \/ ReadReadyState \/ Tick

Spec == Init /\ [][Next]_vars


\* The caller polls, and never calls close().
NextPolled == Poll \/ ReadReadyState \/ Tick

\* The caller keeps polling and time keeps passing.
FairSpec == Init /\ [][NextPolled]_vars /\ WF_vars(Poll) /\ WF_vars(Tick)

\* A transport that fails the first two fetches and answers the third with
\* a valid response, a decoder that delivers messages, and the policy that
\* always retries after the same delay.
InitFailTwice ==
    /\ \E b \in Builders : Created(b, "always")
    /\ transport = << {Ready(Err(e)) : e \in ReqwestErrors},
                      {Ready(Err(e)) : e \in ReqwestErrors},
                      {Ready(Ok(res)) : res \in {r \in Responses : check_response(r).tag = "Ok"}} >>
    /\ decoder = {Ready(Some(Ok(ev))) : ev \in MessageEvents}

SpecFailTwice == InitFailTwice /\ [][NextPolled]_vars

\* ------------------------------------------------------------------------
\* Properties
\* ------------------------------------------------------------------------

IsPoll(l) == l.op = "poll_next"

\* The item a poll returned, if it returned one.
IsItem(ret) == ret.tag = "Ready" /\ ret.val # None

\* The number of populated slots.
Populated == Cardinality({i \in 1..3 : <<delay, next_response, cur_stream>>[i] # None})

\* C1: once close() has been called the driver is closed, ready_state reads
\* Closed, a poll made since returned end-of-sequence and a ready_state read
\* since returned Closed; a further close() changes no field of the driver.
C1_CloseIsFinal ==
    /\ [](close_called =>
            /\ is_closed
            /\ ready_state(this) = Closed
            /\ (IsPoll(last) => last.ret = Ready(None))
            /\ (last.op = "ready_state" => last.ret = Closed))
    /\ [][(close_called /\ Close) => UNCHANGED fields]_vars

\* A poll was made after close() on a driver whose stream was open.
C1_Witness == close_called /\ IsPoll(last) /\ cur_stream # None /\ items # <<>>

\* C2: at most one of the slots delay, next_response and cur_stream is
\* populated.
C2_AtMostOneSlot == Populated <= 1

\* The stream failed and the timer took its place.
C2_Witness ==
    /\ IsPoll(last)
    /\ last.stream.tag = "Ready"
    /\ delay # None
    /\ Populated = 1


\* The poll got a response from the fetch.
GotResponse(l) == IsPoll(l) /\ l.fetch.tag = "Ready" /\ l.fetch.val.tag = "Ok"

\* The poll got a response that the validator rejects.
Rejected(l) == GotResponse(l) /\ check_response(l.fetch.val.val).tag = "Err"

\* The poll got a response that the validator accepts.
Accepted(l) == GotResponse(l) /\ check_response(l.fetch.val.val).tag = "Ok"

\* The poll got a failure that poll_next hands to handle_error.
Handled(l) ==
    /\ IsPoll(l)
    /\ \/ l.fetch.tag = "Ready" /\ l.fetch.val.tag = "Err"
       \/ l.stream.tag = "Ready" /\ l.stream.val = None
       \/ l.stream.tag = "Ready" /\ l.stream.val # None /\ l.stream.val.val.tag = "Err"

\* The error of the failure the poll got.
Failure(l) ==
    IF l.fetch.tag = "Ready"
    THEN IF l.fetch.val.tag = "Err" THEN Transport(l.fetch.val.val)
         ELSE check_response(l.fetch.val.val).val
    ELSE IF l.stream.val = None THEN StreamEnded
    ELSE Decode(l.stream.val.val.val)

IsRejection(item) ==
    item.tag = "Err" /\ item.val.tag \in {"InvalidStatusCode", "InvalidContentType"}

\* C3, as claimed: when the validator rejects the response and the policy
\* returns a delay for that error, the policy is consulted, the timer is
\* armed and the driver is Connecting, not Closed.
C3_RejectionRetried ==
    (Rejected(last) /\ Retry(retry_policy, Failure(last), last_retry) # None) =>
        /\ last.consulted # None
        /\ delay # None
        /\ ready_state(this) = Connecting

\* C3, amended: when the validator rejects the response the policy is not
\* consulted; as long as the rejection is the last item produced the driver
\* is Closed, with no timer armed and no fetch outstanding.
C3_RejectionNotRetried ==
    /\ Rejected(last) => last.consulted = None /\ delay = None /\ is_closed
    /\ (items # <<>> /\ IsRejection(items[Len(items)])) =>
          /\ is_closed
          /\ ready_state(this) = Closed
          /\ delay = None
          /\ next_response = None

\* A response was rejected under a policy that returns a delay for every
\* error.
C3_Witness ==
    /\ Rejected(last)
    /\ retry_policy = "always"
    /\ Retry(retry_policy, Failure(last), last_retry) # None

\* C4: a poll that gets a rejected response yields the validation error and
\* leaves the driver closed, and the poll after it returns end-of-sequence.
C4_RejectionCloses ==
    /\ [](Rejected(last) =>
            /\ last.ret = Ready(Some(Err(Failure(last))))
            /\ IsRejection(last.ret.val.val)
            /\ is_closed)
    /\ [][(Rejected(last) /\ Poll) => last'.ret = Ready(None)]_vars

\* End-of-sequence follows a rejection, under a policy that retries every
\* error and without any close().
C4_Witness ==
    /\ IsPoll(last)
    /\ last.ret = Ready(None)
    /\ items # <<>>
    /\ IsRejection(items[Len(items)])
    /\ retry_policy = "always"
    /\ ~close_called

\* The poll consulted the policy, which returned none.
Declined(l) ==
    /\ Handled(l)
    /\ l.consulted # None
    /\ Retry(retry_policy, l.consulted.val.error, l.consulted.val.last_retry) = None

C6_ReadyState ==
    /\ [](last.op = "ready_state" =>
            /\ last.ret \in ReadyState
            /\ (last.ret = Closed <=> is_closed)
            /\ (last.ret = Connecting <=>
                    (~is_closed /\ (next_response # None \/ delay # None)))
            /\ (last.ret = Open <=>
                    (~is_closed /\ next_response = None /\ delay = None)))
    /\ [][ready_state(this) = Closed => ready_state(this') = Closed]_vars

\* ready_state read Connecting on a driver that waits for its timer, after
\* a connection that had been open.
C6_Witness ==
    /\ last.op = "ready_state"
    /\ last.ret = Connecting
    /\ delay # None
    /\ next_response = None
    /\ \E i \in 1..Len(items) : items[i] = Ok(EventOpen)

IsOpen(item) == item = Ok(EventOpen)

IsMessage(item) == item.tag = "Ok" /\ item.val.tag = "Message"

\* C7: a poll yields Open exactly when it gets a response that the
\* validator accepts, and then the stream of that response is open and
\* ready_state is Open; in the sequence produced a Message follows an Open
\* or a Message, and an Open is the first item or follows an error.
C7_OpenOncePerConnection ==
    /\ Accepted(last) =>
          /\ last.ret = Ready(Some(Ok(EventOpen)))
          /\ cur_stream = Some(eventsource(last.fetch.val.val))
          /\ ready_state(this) = Open
    /\ (IsPoll(last) /\ IsItem(last.ret) /\ IsOpen(last.ret.val.val)) => Accepted(last)
    /\ \A i \in 1..Len(items) :
          /\ IsMessage(items[i]) =>
                i > 1 /\ (IsOpen(items[i - 1]) \/ IsMessage(items[i - 1]))
          /\ IsOpen(items[i]) => (i = 1 \/ items[i - 1].tag = "Err")

\* A connection delivered a Message and failed, and a second connection has
\* just yielded its Open.
C7_Witness ==
    /\ Accepted(last)
    /\ Len(items) >= 4
    /\ IsOpen(items[1])
    /\ IsMessage(items[2])
    /\ items[3].tag = "Err"
    /\ IsOpen(items[4])

\* The poll got a failure: one it hands to handle_error, or a rejection.
Failed(l) == Handled(l) \/ Rejected(l)

\* C8: a poll that gets a failure returns that error as its item, and
\* returns an error only then; when it returns the driver is closed or has
\* its timer armed, the policy having been consulted with that error unless
\* the failure is a rejection.
C8_FailureSurfaced ==
    /\ Failed(last) =>
          /\ last.ret = Ready(Some(Err(Failure(last))))
          /\ is_closed \/ delay # None
          /\ is_closed => delay = None
          /\ Handled(last) =>
                /\ last.consulted # None
                /\ last.consulted.val.error = Failure(last)
                /\ is_closed <=>
                      Retry(retry_policy, Failure(last), last.consulted.val.last_retry) = None
    /\ (IsPoll(last) /\ IsItem(last.ret) /\ last.ret.val.val.tag = "Err") => Failed(last)

\* A poll found the timer elapsed, sent the request anew, got a transport
\* error from it and armed the timer again.
C8_Witness ==
    /\ IsPoll(last)
    /\ last.timer.tag = "Ready"
    /\ last.fetch = Ready(Err("connect"))
    /\ last.ret = Ready(Some(Err(Transport("connect"))))
    /\ delay # None


\* C9: while the timer is armed and has not elapsed no request is sent: a
\* poll returns not-ready and leaves the timer alone.  A poll that finds the
\* timer elapsed releases it and sends a request cloned from the builder,
\* which stays as it was, and polls that request.  When the caller keeps
\* polling and time keeps passing, a driver that waits for its timer gets to
\* send its request.
C9_RetryAfterTimer ==
    /\ [][(delay # None /\ delay.val.left > 0) => next_response' = None]_vars
    /\ [][(~is_closed /\ delay # None /\ delay.val.left > 0 /\ Poll) =>
            /\ last'.ret = Pending
            /\ last'.armed = None
            /\ last'.fetch = NotPolled
            /\ delay' = delay]_vars
    /\ [][(~is_closed /\ delay # None /\ delay.val.left = 0 /\ Poll) =>
            /\ last'.timer = Ready(<<>>)
            /\ last'.armed = Some(send(builder))
            /\ last'.fetch # NotPolled
            /\ builder' = builder
            /\ last'.fetch = Pending =>
                  (next_response' = Some(send(builder)) /\ delay' = None)]_vars
    /\ (~is_closed /\ delay # None) ~> (IsPoll(last) /\ last.armed # None)

\* After a failure and its delay the request was sent anew and is
\* outstanding.
C9_Witness ==
    /\ IsPoll(last)
    /\ last.timer.tag = "Ready"
    /\ last.armed # None
    /\ last.fetch = Pending
    /\ next_response # None
    /\ last_retry # None

\* C10: with the transport that fails twice and then succeeds and the
\* policy that always retries, the items produced are two transport errors,
\* Open, then messages, and ready_state is Connecting at creation and after
\* each error, Open after Open and after each message.
C10_FailTwiceThenOpen ==
    /\ Len(states) = Len(items) + 1
    /\ \A i \in 1..Len(items) :
          /\ i <= 2 => \E e \in ReqwestErrors : items[i] = Err(Transport(e))
          /\ i = 3 => IsOpen(items[i])
          /\ i > 3 => IsMessage(items[i])
    /\ \A i \in 1..Len(states) : states[i] = IF i <= 3 THEN Connecting ELSE Open
    /\ Len(items) < MaxItems => ready_state(this) = states[Len(states)]

\* The two errors, Open and a message have been produced.
C10_Witness ==
    /\ Len(items) >= 4
    /\ IsMessage(items[4])
    /\ states[5] = Open
    /\ transport = << {Ready(Ok(res)) : res \in {r \in Responses : check_response(r).tag = "Ok"}} >>


\* The poll found the stream at its end.
StreamEnd(l) == IsPoll(l) /\ l.stream = Ready(None)

\* C11: a poll that finds the stream at its end yields Err(StreamEnded),
\* never end-of-sequence, and hands it to failure handling: the timer is
\* armed if the policy returns a delay, the driver is closed if not.  In the
\* sequence produced Err(StreamEnded) follows the Open of its connection and
\* the messages delivered since, however many.
C11_StreamEndIsFailure ==
    /\ StreamEnd(last) =>
          /\ last.ret = Ready(Some(Err(StreamEnded)))
          /\ last.consulted # None
          /\ last.consulted.val.error = StreamEnded
          /\ IF Retry(retry_policy, StreamEnded, last.consulted.val.last_retry) # None
               THEN delay # None /\ ~is_closed
               ELSE delay = None /\ is_closed
          /\ cur_stream = None
    /\ \A i \in 1..Len(items) :
          items[i] = Err(StreamEnded) =>
              /\ i > 1
              /\ \E j \in 1..(i - 1) :
                    /\ IsOpen(items[j])
                    /\ \A k \in (j + 1)..(i - 1) : IsMessage(items[k])

\* A connection delivered two messages and its stream ended, under a policy
\* that retries.
C11_Witness ==
    /\ StreamEnd(last)
    /\ Len(items) >= 4
    /\ IsOpen(items[1])
    /\ IsMessage(items[2])
    /\ IsMessage(items[3])
    /\ items[4] = Err(StreamEnded)
    /\ delay # None


\* The poll yielded Open.
YieldedOpen(l) == IsPoll(l) /\ IsItem(l.ret) /\ IsOpen(l.ret.val.val)

\* What the policy answers to the call the poll made, the bookkeeping being
\* lr.
Answer(l, lr) == Retry(retry_policy, l.consulted.val.error, lr)

\* The count a failure records: 1 if none was recorded, else the one
\* recorded.
Carried(lr) == IF lr = None THEN 1 ELSE lr.val[1]

\* C12: last_retry is None at creation.  A poll that yields Open resets it
\* to None.  A poll that consults the policy passes it the bookkeeping as it
\* is before the poll; if the policy returns a delay the poll records that
\* delay with the count 1 if nothing was recorded, with the recorded count
\* otherwise, and if the policy returns none the bookkeeping stays.  No
\* other step changes it, and the count, while recorded, never decreases.
C12_Bookkeeping ==
    /\ [](last.op = "new" => last_retry = None)
    /\ [][(YieldedOpen(last') /\ Poll) => last_retry' = None]_vars
    /\ [][(IsPoll(last') /\ last'.consulted # None /\ Poll) =>
            /\ last'.consulted.val.last_retry = last_retry
            /\ Answer(last', last_retry) # None =>
                  last_retry' = Some(<<Carried(last_retry), Answer(last', last_retry).val>>)
            /\ Answer(last', last_retry) = None => last_retry' = last_retry]_vars
    /\ [][last_retry' # last_retry =>
            (Poll /\ (YieldedOpen(last') \/ last'.consulted # None))]_vars
    /\ [][(last_retry # None /\ last_retry' # None) =>
            last_retry'.val[1] >= last_retry.val[1]]_vars

\* A connection opened after a recorded failure, which reset the
\* bookkeeping, and a later failure recorded a retry again.
C12_Witness ==
    /\ IsPoll(last)
    /\ last.consulted # None
    /\ last.consulted.val.last_retry = None
    /\ last_retry # None
    /\ Len(items) >= 3
    /\ items[1].tag = "Err"
    /\ IsOpen(items[2])


\* C13: right after close() returns, neither the fetch slot nor the stream
\* slot is populated.
C13_CloseReleases ==
    last.op = "close" => (next_response = None /\ cur_stream = None)

\* No poll has produced an item or the end of the sequence yet, and close()
\* has not been called: every poll so far reported not-ready.
Unresolved == items = <<>> /\ ~close_called /\ (IsPoll(last) => last.ret = Pending)

\* C14: the driver new() returns has its fetch slot populated with the
\* request cloned from the builder, no timer, no stream, no bookkeeping, and
\* is not closed, so ready_state is Connecting; it stays so as long as every
\* poll reports not-ready and close() is not called.
C14_NewIsConnecting ==
    /\ (items = <<>> /\ ~close_called) => (IsPoll(last) => last.ret = Pending)
    /\ Unresolved =>
          /\ next_response = Some(send(builder))
          /\ delay = None
          /\ cur_stream = None
          /\ ~is_closed
          /\ last_retry = None
          /\ ready_state(this) = Connecting
          /\ states = <<Connecting>>
          /\ last.op = "ready_state" => last.ret = Connecting

\* The first fetch was polled and was not ready.
C14_Witness ==
    /\ Unresolved
    /\ IsPoll(last)
    /\ last.fetch = Pending
    /\ last.timer = NotPolled


\* The policy returns a delay for every error.
AlwaysRetries ==
    \A e \in {Transport(x) : x \in ReqwestErrors} \cup {StreamEnded}
                \cup {Decode(x) : x \in EventStreamErrors},
       lr \in {None} \cup {Some(<<1, d>>) : d \in 1..MaxDelay} :
        Retry(retry_policy, e, lr) # None

\* The poll sent the request anew on finding the timer elapsed.
Rearmed(l) == IsPoll(l) /\ l.timer.tag = "Ready" /\ l.armed # None

\* C15, as claimed: with a policy that returns a delay for every error and
\* no close(), the driver is never closed, and a poll that gets a failure
\* leaves the timer armed.
C15_NeverCloses ==
    AlwaysRetries =>
        /\ ~is_closed
        /\ (IsPoll(last) /\ Failed(last)) => delay # None

\* C15, amended: with a policy that returns a delay for every error and no
\* close(), a poll that gets a transport error, a decode error or the end of
\* the stream leaves the driver open with the timer armed, however many
\* failures came before, and the request is sent anew later; only the
\* rejection of a response closes the driver.
C15_NoCeiling ==
    /\ [](AlwaysRetries =>
            (Handled(last) => (~is_closed /\ delay # None /\ last_retry # None)))
    /\ [][(AlwaysRetries /\ ~is_closed /\ is_closed') => Rejected(last')]_vars
    /\ (AlwaysRetries /\ ~is_closed /\ delay # None /\ delay.val.left > 0)
            ~> Rearmed(last)

\* As many failures in a row as the recorded prefix holds, and the driver
\* waits for its timer once more.
C15_Witness ==
    /\ AlwaysRetries
    /\ Len(items) >= MaxItems
    /\ \A i \in 1..Len(items) : items[i].tag = "Err"
    /\ Handled(last)
    /\ ~is_closed
    /\ delay # None


\* The number of waitables the poll polled.
PolledCount(l) == Cardinality({i \in 1..3 : <<l.timer, l.fetch, l.stream>>[i] # NotPolled})

\* C16: a poll adds at most one item to the sequence and polls at most one
\* of the timer, the fetch and the stream, but for a poll that finds the
\* timer elapsed: that one sends the request anew and polls it in the same
\* call, and nothing else.  A poll whose timer has not elapsed polls nothing
\* else and returns not-ready.  A poll that accepts a response leaves the
\* new stream unpolled.
C16_OneSlotPerPoll ==
    /\ [][Len(items') <= Len(items) + 1]_vars
    /\ [](IsPoll(last) =>
            /\ last.timer.tag = "Ready" =>
                  /\ last.armed # None
                  /\ last.fetch # NotPolled
                  /\ last.stream = NotPolled
                  /\ \/ last.ret = Pending /\ next_response = last.armed
                     \/ YieldedOpen(last)
                     \/ IsItem(last.ret) /\ last.ret.val.val.tag = "Err"
            /\ last.timer.tag # "Ready" => (PolledCount(last) <= 1 /\ last.armed = None)
            /\ last.timer = Pending => last.ret = Pending
            /\ Accepted(last) => (last.stream = NotPolled /\ cur_stream # None))

\* A poll found the timer elapsed, sent the request and got the response
\* that it accepted, all in one call.
C16_Witness == Rearmed(last) /\ YieldedOpen(last) /\ last.stream = NotPolled


\* C17: a poll of a closed driver returns end-of-sequence and changes no
\* field of the driver, slots, closed flag, bookkeeping and builder
\* included; it polls neither the timer, the fetch nor the stream, consults
\* no policy and sends no request.
C17_ClosedPollIsInert ==
    [][(is_closed /\ IsPoll(last') /\ Poll) =>
          /\ UNCHANGED fields
          /\ UNCHANGED <<transport, decoder, items, states>>
          /\ last'.ret = Ready(None)
          /\ last'.timer = NotPolled
          /\ last'.fetch = NotPolled
          /\ last'.stream = NotPolled
          /\ last'.consulted = None
          /\ last'.armed = None]_vars

\* A closed driver that still holds its request, an elapsed timer or its
\* stream was polled.
C17_Witness ==
    /\ is_closed
    /\ IsPoll(last)
    /\ last.ret = Ready(None)
    /\ Populated = 1
    /\ last_retry # None


\* C18: a driver that is not closed has exactly one slot populated; so a
\* driver with neither timer nor fetch has its stream, the unwrap of
\* cur_stream never fails, and ready_state Open means a stream is open.
C18_ExactlyOneSlot ==
    /\ ~is_closed => Populated = 1
    /\ (~is_closed /\ delay = None /\ next_response = None) => cur_stream # None
    /\ IsPoll(last) => last.ret # Panic
    /\ ready_state(this) = Open => cur_stream # None

\* A poll reached the stream branch after a reconnection.
C18_Witness ==
    /\ ~is_closed
    /\ IsPoll(last)
    /\ last.stream # NotPolled
    /\ cur_stream # None
    /\ \E i \in 1..Len(items) : items[i].tag = "Err"


\* C19: the count recorded in last_retry is 1 whenever last_retry is set,
\* and the policy is called with no bookkeeping or with the count 1.
C19_CountIsOne ==
    /\ last_retry # None => last_retry.val[1] = 1
    /\ (IsPoll(last) /\ last.consulted # None /\ last.consulted.val.last_retry # None) =>
          last.consulted.val.last_retry.val[1] = 1

\* The policy was called with recorded bookkeeping at the third failure in
\* a row, and granted one more retry.
C19_Witness ==
    /\ IsPoll(last)
    /\ last.consulted # None
    /\ last.consulted.val.last_retry # None
    /\ last_retry # None
    /\ delay # None
    /\ Len(items) >= 3
    /\ \A i \in 1..3 : items[i].tag = "Err"

\* The step arms a timer.
Arms == delay' # None /\ delay' # delay /\ delay'.val.left = delay'.val.duration

\* C20: while the timer slot is populated last_retry is set and its delay
\* is the duration the timer was armed with; a timer is armed only by a
\* poll that hands a failure to handle_error, with the delay the policy
\* returned.
C20_TimerMatchesBookkeeping ==
    /\ [](delay # None =>
            /\ last_retry # None
            /\ last_retry.val[2] = delay.val.duration
            /\ delay.val.left <= delay.val.duration)
    /\ [](last.op = "new" => delay = None)
    /\ [][Arms =>
            /\ Poll
            /\ Handled(last')
            /\ last'.consulted # None
            /\ Answer(last', last'.consulted.val.last_retry) = Some(delay'.val.duration)]_vars
    /\ [][(delay # None /\ delay' # None /\ ~Arms) =>
            (delay'.val.duration = delay.val.duration /\ delay'.val.left <= delay.val.left)]_vars

\* A second retry was granted with a longer delay than the first, and its
\* timer is running.
C20_Witness ==
    /\ delay # None
    /\ delay.val.duration = MaxDelay
    /\ delay.val.left < delay.val.duration
    /\ retry_policy = "backoff"
    /\ last_retry = Some(<<1, MaxDelay>>)

====
